---------------------------- MODULE Spec2Model ----------------------------
(* Model of main.py: an in-memory authenticated CRUD service.              *)
(* users_db and items_db are Python dicts (insertion ordered); the request *)
(* handlers are the actions.  Time is counted in ticks of 1/TicksPerSecond *)
(* of a second, so that the sub-second part of datetime.utcnow() is kept.  *)
EXTENDS Integers, Sequences, FiniteSets, TLC

VARIABLES
    users_db,   \* dict username -> user_data, as a sequence of [key, val]
    items_db,   \* dict item id -> item_data, as a sequence of [key, val]
    now,        \* the clock read by datetime.utcnow() and by jwt.decode, in ticks
    request,    \* the last request received: [op, header, item_id, body]
    response,   \* the response sent to it: [op, status, detail, body]
    inflight    \* requests accepted and not yet answered, with their answers
                \* once they have them (used when requests overlap)

vars == <<users_db, items_db, now, request, response, inflight>>

-----------------------------------------------------------------------------
(* Program constants *)

SECRET_KEY == "your-secret-key-here"
ALGORITHM == "HS256"
ACCESS_TOKEN_EXPIRE_MINUTES == 30
DEFAULT_EXPIRE_MINUTES == 15

USERNAME_MIN_LENGTH == 3
USERNAME_MAX_LENGTH == 50
PASSWORD_MIN_LENGTH == 8
TITLE_MIN_LENGTH == 1
TITLE_MAX_LENGTH == 100
TLD_MIN_LENGTH == 2

HTTP_200_OK == 200
HTTP_400_BAD_REQUEST == 400
HTTP_401_UNAUTHORIZED == 401
HTTP_403_FORBIDDEN == 403
HTTP_404_NOT_FOUND == 404
HTTP_422_UNPROCESSABLE_ENTITY == 422
HTTP_500_INTERNAL_SERVER_ERROR == 500

(* Python's None, for the Optional[str] fields and a missing "sub" claim *)
None == "None"

-----------------------------------------------------------------------------
(* Bounds of the model *)

TicksPerSecond == 2     \* clock resolution: ticks in one second
MaxEarly == 2           \* the clock's early points are 0 .. MaxEarly ticks
MaxLate == 2            \* late points: up to MaxLate ticks past the 30 minutes
MaxItems == 2           \* Spec: no create_item with this many items stored
NumSalts == 1           \* the salts get_password_hash draws from
MaxListed == 3          \* SpecItems: no create_item with this many items stored
MaxInFlight == 2        \* SpecConcurrent: requests in flight at a time

(* timedelta(minutes=m), in ticks *)
Minutes(m) == m * 60 * TicksPerSecond

-----------------------------------------------------------------------------
(* Python dict, insertion ordered: a sequence of [key |-> k, val |-> v] *)

DictKeys(d) == {d[i].key : i \in 1..Len(d)}

DictHas(d, k) == \E i \in 1..Len(d) : d[i].key = k

DictIndex(d, k) == CHOOSE i \in 1..Len(d) : d[i].key = k

DictGet(d, k) == d[DictIndex(d, k)].val

DictValues(d) == [i \in 1..Len(d) |-> d[i].val]

(* a key set again losing its position and going last *)
DictSet_moved_last(d, k, v) ==
    Append(SelectSeq(d, LAMBDA e : e.key # k), [key |-> k, val |-> v])

(* d[k] = v: an existing key keeps its position, a new key goes last *)
DictSet(d, k, v) ==
    IF DictHas(d, k)
    THEN [d EXCEPT ![DictIndex(d, k)] = [key |-> k, val |-> v]]
    ELSE Append(d, [key |-> k, val |-> v])

(* del d[k] *)
DictDel(d, k) ==
    LET i == DictIndex(d, k)
    IN  SubSeq(d, 1, i - 1) \o SubSeq(d, i + 1, Len(d))

-----------------------------------------------------------------------------
(* Pydantic models: the Field constraints checked before a handler runs.   *)
(* A str is a TLA+ string, except an email, which is a sequence of         *)
(* one-character strings so that the regex can be matched against it.      *)

Lower == {"a","b","c","d","e","f","g","h","i","j","k","l","m",
          "n","o","p","q","r","s","t","u","v","w","x","y","z"}
Upper == {"A","B","C","D","E","F","G","H","I","J","K","L","M",
          "N","O","P","Q","R","S","T","U","V","W","X","Y","Z"}
Digit == {"0","1","2","3","4","5","6","7","8","9"}
LocalChars == Lower \cup Upper \cup Digit \cup {".", "_", "%", "+", "-"}
DomainChars == Lower \cup Upper \cup Digit \cup {".", "-"}
TldChars == Lower \cup Upper

AllIn(e, lo, hi, cs) == \A k \in lo..hi : e[k] \in cs

(* ^[a-zA-Z0-9._%+-]+@[a-zA-Z0-9.-]+\.[a-zA-Z]{2,}$ matched by re.match:   *)
(* $ matches at the end and also just before a final newline.              *)
EmailRegexMatches(e) ==
    \E n \in {Len(e)} \cup (IF Len(e) > 0 /\ e[Len(e)] = "\n" THEN {Len(e) - 1} ELSE {}) :
        \E i \in 2..n : \E j \in (i + 2)..n :
            /\ e[i] = "@"
            /\ e[j] = "."
            /\ AllIn(e, 1, i - 1, LocalChars)
            /\ AllIn(e, i + 1, j - 1, DomainChars)
            /\ n - j >= TLD_MIN_LENGTH
            /\ AllIn(e, j + 1, n, TldChars)

(* the password accepted at any length *)
UserCreateValid_any_password(user) ==
    /\ Len(user.username) >= USERNAME_MIN_LENGTH
    /\ Len(user.username) <= USERNAME_MAX_LENGTH
    /\ EmailRegexMatches(user.email)

(* UserCreate: username, email, full_name, password *)
UserCreateValid(user) ==
    /\ Len(user.username) >= USERNAME_MIN_LENGTH
    /\ Len(user.username) <= USERNAME_MAX_LENGTH
    /\ EmailRegexMatches(user.email)
    /\ Len(user.password) >= PASSWORD_MIN_LENGTH

(* ItemCreate: title, description, price *)
ItemCreateValid(item) ==
    /\ Len(item.title) >= TITLE_MIN_LENGTH
    /\ Len(item.title) <= TITLE_MAX_LENGTH
    /\ item.price > 0

(* the stored dict returned as it is, with no response model *)
UserView_unfiltered(user_data) == user_data

(* response_model=User: the fields of the outward view; "password" is not one *)
UserView(user_data) ==
    [id |-> user_data.id, username |-> user_data.username,
     email |-> user_data.email, full_name |-> user_data.full_name,
     is_active |-> TRUE, created_at |-> user_data.created_at]

(* response_model=Item *)
ItemView(item_data) ==
    [id |-> item_data.id, title |-> item_data.title,
     description |-> item_data.description, price |-> item_data.price,
     owner_id |-> item_data.owner_id, created_at |-> item_data.created_at]

-----------------------------------------------------------------------------
(* Credential hasher: bcrypt through passlib.  A hash carries its salt;   *)
(* the digest stands for the one-way image of (salt, password).           *)

get_password_hash(password, salt) ==
    [salt |-> salt, digest |-> <<salt, password>>]

verify_password(plain_password, hashed_password) ==
    <<hashed_password.salt, plain_password>> = hashed_password.digest

-----------------------------------------------------------------------------
(* Token service: PyJWT.  A token is its header-and-payload and the key    *)
(* its signature was made with; a string that is no JWT is not wellformed. *)

(* jwt.encode: a datetime "exp" claim is written as whole seconds *)
jwt_encode(payload, key) ==
    [wellformed |-> TRUE, sub |-> payload.sub,
     exp |-> payload.exp \div TicksPerSecond, key |-> key]

(* a token expiring only after its exp second has passed *)
jwt_decode_late_expiry(token, key, t) ==
    IF ~token.wellformed
    THEN [ok |-> FALSE, error |-> "DecodeError", sub |-> None]
    ELSE IF token.key # key
    THEN [ok |-> FALSE, error |-> "InvalidSignatureError", sub |-> None]
    ELSE IF token.exp * TicksPerSecond < t
    THEN [ok |-> FALSE, error |-> "ExpiredSignatureError", sub |-> None]
    ELSE [ok |-> TRUE, error |-> "", sub |-> token.sub]

(* the signature not verified *)
jwt_decode_unverified(token, key, t) ==
    IF ~token.wellformed
    THEN [ok |-> FALSE, error |-> "DecodeError", sub |-> None]
    ELSE IF token.exp * TicksPerSecond <= t
    THEN [ok |-> FALSE, error |-> "ExpiredSignatureError", sub |-> None]
    ELSE [ok |-> TRUE, error |-> "", sub |-> token.sub]

(* jwt.decode: structure, then signature, then exp <= now *)
jwt_decode(token, key, t) ==
    IF ~token.wellformed
    THEN [ok |-> FALSE, error |-> "DecodeError", sub |-> None]
    ELSE IF token.key # key
    THEN [ok |-> FALSE, error |-> "InvalidSignatureError", sub |-> None]
    ELSE IF token.exp * TicksPerSecond <= t
    THEN [ok |-> FALSE, error |-> "ExpiredSignatureError", sub |-> None]
    ELSE [ok |-> TRUE, error |-> "", sub |-> token.sub]

(* expires_delta is <<>> for None and <<d>> for a timedelta of d ticks;    *)
(* "if expires_delta:" is false for None and for a zero timedelta.         *)
create_access_token(data, expires_delta, t) ==
    LET expire == IF expires_delta # <<>> /\ expires_delta[1] # 0
                  THEN t + expires_delta[1]
                  ELSE t + Minutes(DEFAULT_EXPIRE_MINUTES)
        to_encode == [sub |-> data.sub, exp |-> expire]
    IN  jwt_encode(to_encode, SECRET_KEY)

-----------------------------------------------------------------------------
(* Auth guard.  An Authorization header is [scheme, credentials], with     *)
(* credentials <<>> when there are none and <<token>> otherwise; a request *)
(* without the header has scheme "" and no credentials.                    *)

NoHeader == [scheme |-> "", credentials |-> <<>>]

Bearer(token) == [scheme |-> "Bearer", credentials |-> <<token>>]

SchemeLower(scheme) ==
    IF scheme \in {"Bearer", "BEARER", "bearer"} THEN "bearer"
    ELSE IF scheme \in {"Basic", "basic"} THEN "basic"
    ELSE scheme

(* missing credentials answered 401 *)
security_unauthorized(header) ==
    IF header.scheme = "" \/ header.credentials = <<>>
    THEN [ok |-> FALSE, status |-> HTTP_401_UNAUTHORIZED,
          detail |-> "Not authenticated", credentials |-> <<>>]
    ELSE IF SchemeLower(header.scheme) # "bearer"
    THEN [ok |-> FALSE, status |-> HTTP_401_UNAUTHORIZED,
          detail |-> "Invalid authentication credentials", credentials |-> <<>>]
    ELSE [ok |-> TRUE, status |-> HTTP_200_OK, detail |-> "",
          credentials |-> header.credentials]

(* security = HTTPBearer(): the dependency that extracts the credentials *)
security(header) ==
    IF header.scheme = "" \/ header.credentials = <<>>
    THEN [ok |-> FALSE, status |-> HTTP_403_FORBIDDEN,
          detail |-> "Not authenticated", credentials |-> <<>>]
    ELSE IF SchemeLower(header.scheme) # "bearer"
    THEN [ok |-> FALSE, status |-> HTTP_403_FORBIDDEN,
          detail |-> "Invalid authentication credentials", credentials |-> <<>>]
    ELSE [ok |-> TRUE, status |-> HTTP_200_OK, detail |-> "",
          credentials |-> header.credentials]

(* the user looked up under a claim the token does not carry *)
get_current_user_wrong_claim(header, users, t) ==
    LET creds == security(header)
        decoded == jwt_decode(creds.credentials[1], SECRET_KEY, t)
    IN  IF ~creds.ok
        THEN [ok |-> FALSE, status |-> creds.status, detail |-> creds.detail, user |-> <<>>]
        ELSE IF ~decoded.ok \/ decoded.sub = None
        THEN [ok |-> FALSE, status |-> HTTP_401_UNAUTHORIZED,
              detail |-> "Could not validate credentials", user |-> <<>>]
        ELSE [ok |-> FALSE, status |-> HTTP_401_UNAUTHORIZED,
              detail |-> "User not found", user |-> <<>>]

(* get_current_user: <<user>> on success, else the HTTPException raised *)
get_current_user(header, users, t) ==
    LET creds == security(header)
        decoded == jwt_decode(creds.credentials[1], SECRET_KEY, t)
    IN  IF ~creds.ok
        THEN [ok |-> FALSE, status |-> creds.status, detail |-> creds.detail, user |-> <<>>]
        ELSE IF ~decoded.ok \/ decoded.sub = None
        THEN [ok |-> FALSE, status |-> HTTP_401_UNAUTHORIZED,
              detail |-> "Could not validate credentials", user |-> <<>>]
        ELSE IF ~DictHas(users, decoded.sub)
        THEN [ok |-> FALSE, status |-> HTTP_401_UNAUTHORIZED,
              detail |-> "User not found", user |-> <<>>]
        ELSE [ok |-> TRUE, status |-> HTTP_200_OK, detail |-> "",
              user |-> <<DictGet(users, decoded.sub)>>]

-----------------------------------------------------------------------------
(* Responses.  body is <<>> when there is none, <<x>> for one object and   *)
(* the list itself for a list.                                             *)

Reply(op, status, detail, body) ==
    [op |-> op, status |-> status, detail |-> detail, body |-> body]

(* @app.exception_handler(404) returns a dict, which is no Response: the   *)
(* exception middleware fails calling it, and so does the 500 handler, so  *)
(* the server answers a raised 404 with its plain 500.                     *)
not_found_handler(op, detail) ==
    Reply(op, HTTP_500_INTERNAL_SERVER_ERROR, "Internal Server Error", <<>>)

(* raise HTTPException(status_code, detail) *)
HTTPException(op, status, detail) ==
    IF status = HTTP_404_NOT_FOUND
    THEN not_found_handler(op, detail)
    ELSE Reply(op, status, detail, <<>>)

(* a request body that fails its pydantic model *)
RequestValidationError(op) ==
    Reply(op, HTTP_422_UNPROCESSABLE_ENTITY, "value is not valid", <<>>)

(* items[skip : skip + limit] on a Python list *)
PyIndex(i, len) ==
    IF i < 0 THEN (IF i + len < 0 THEN 0 ELSE i + len)
    ELSE IF i > len THEN len ELSE i

PySlice(list, start, stop) ==
    SubSeq(list, PyIndex(start, Len(list)) + 1, PyIndex(stop, Len(list)))

-----------------------------------------------------------------------------
(* What the clients send *)

GoodEmail == <<"a", "@", "b", ".", "i", "o">>
BadEmail == <<"a", "@", "b">>

UserCreate(username, email, password) ==
    [username |-> username, email |-> email, full_name |-> None, password |-> password]

(* a username of 51 characters and a title of 101 *)
LongUsername == "uuuuuuuuuuuuuuuuuuuuuuuuuuuuuuuuuuuuuuuuuuuuuuuuuuu"
LongTitle ==
    "ttttttttttttttttttttttttttttttttttttttttttttttttttttttttttttttttttttttttttttttttttttttttttttttttttttt"

(* two registrations that pass validation and one failing each constraint *)
UserCreates ==
    { UserCreate("alice", GoodEmail, "password1"),
      UserCreate("bob", GoodEmail, "password2"),
      UserCreate("al", GoodEmail, "password1"),
      UserCreate(LongUsername, GoodEmail, "password1"),
      UserCreate("alice", BadEmail, "password1"),
      UserCreate("bob", GoodEmail, "short") }

UserLogins == [username : {"alice", "bob", "carol"}, password : {"password1", "password2"}]

Salts == 1..NumSalts

ItemCreate(title, price) == [title |-> title, description |-> None, price |-> price]

ItemCreates ==
    { ItemCreate("Widget", 5), ItemCreate("Gadget", 7),
      ItemCreate("", 5), ItemCreate(LongTitle, 5), ItemCreate("Widget", 0) }

ItemIds == 1..(MaxItems + 1)

Pages == {[skip |-> 0, limit |-> 10], [skip |-> 1, limit |-> 1],
          [skip |-> 0, limit |-> 0], [skip |-> 4, limit |-> 2],
          [skip |-> -1, limit |-> 10], [skip |-> 0, limit |-> -1]}

(* an exp claim, in seconds, far after every clock point of the model *)
FarFutureExp == 4 * ACCESS_TOKEN_EXPIRE_MINUTES * 60

GarbageToken == [wellformed |-> FALSE, sub |-> None, exp |-> 0, key |-> ""]

(* tokens nobody was given: no JWT at all, one signed with another key, and *)
(* two signed with SECRET_KEY, without a subject and for an unknown user    *)
ForgedTokens ==
    { GarbageToken,
      [wellformed |-> TRUE, sub |-> "alice", exp |-> FarFutureExp, key |-> "other-key"],
      [wellformed |-> TRUE, sub |-> None, exp |-> FarFutureExp, key |-> SECRET_KEY],
      [wellformed |-> TRUE, sub |-> "mallory", exp |-> FarFutureExp, key |-> SECRET_KEY] }

NoCredentialHeaders ==
    { NoHeader,
      [scheme |-> "Bearer", credentials |-> <<>>],
      [scheme |-> "Basic", credentials |-> <<GarbageToken>>] }

BadHeaders == NoCredentialHeaders \cup {Bearer(t) : t \in ForgedTokens}

(* The server keeps no record of the tokens it hands out, so neither does  *)
(* the model: a client may hold any token login has returned so far, that  *)
(* is the token of any stored user made at any clock point of `points`     *)
(* from the user's registration up to now.                                 *)
LoginTokens(points) ==
    UNION { { create_access_token([sub |-> users_db[i].val.username],
                                  <<Minutes(ACCESS_TOKEN_EXPIRE_MINUTES)>>, t) :
                t \in {p \in points : users_db[i].val.created_at <= p /\ p <= now} } :
            i \in 1..Len(users_db) }

TokenHeaders(points) == {Bearer(t) : t \in LoginTokens(points)}

Headers(points) == BadHeaders \cup TokenHeaders(points)

(* the headers carrying a token of login that has not expired, and the rest *)
HolderHeaders(points) ==
    {Bearer(t) : t \in {k \in LoginTokens(points) : k.exp * TicksPerSecond > now}}

OtherHeaders(points) == Headers(points) \ HolderHeaders(points)

(* The holder of a live token tries every id and body.  Each other header  *)
(* is tried on id 1 with a good body, and two of them also on an unknown   *)
(* id with a bad body.                                                     *)
OtherProbes(points) ==
    (OtherHeaders(points) \X {<<1, ItemCreate("Widget", 5)>>})
        \cup ({NoHeader, Bearer(GarbageToken)} \X {<<MaxItems + 1, ItemCreate("", 5)>>})

CreateItemRequests(points) ==
    (HolderHeaders(points) \X ItemCreates)
        \cup {<<pr[1], pr[2][2]>> : pr \in OtherProbes(points)}

UpdateItemRequests(points) ==
    (HolderHeaders(points) \X ItemIds \X ItemCreates)
        \cup {<<pr[1], pr[2][1], pr[2][2]>> : pr \in OtherProbes(points)}

DeleteItemRequests(points) ==
    (HolderHeaders(points) \X ItemIds)
        \cup {<<pr[1], pr[2][1]>> : pr \in OtherProbes(points)}

(* the clock of Spec: the start, and the moment a token of the start expires *)
ClockPoints == {0, Minutes(ACCESS_TOKEN_EXPIRE_MINUTES)}

(* the clock of SpecClock: ticks around the start and around the expiry *)
FineClockPoints ==
    (0..MaxEarly) \cup
    ((Minutes(ACCESS_TOKEN_EXPIRE_MINUTES) - 1)
        .. (Minutes(ACCESS_TOKEN_EXPIRE_MINUTES) + MaxLate))

(* request records: body is <<>> when the request has none *)
Request(op, header, item_id, body) ==
    [op |-> op, header |-> header, item_id |-> item_id, body |-> body]

-----------------------------------------------------------------------------
(* The state after the module is loaded *)

Init ==
    /\ users_db = <<>>
    /\ items_db = <<>>
    /\ now = 0
    /\ request = Request("none", NoHeader, 0, <<>>)
    /\ response = Reply("none", HTTP_200_OK, "", <<>>)
    /\ inflight = <<>>

(* time passes *)
Tick(t) ==
    /\ t > now
    /\ now' = t
    /\ UNCHANGED <<users_db, items_db, request, response, inflight>>

-----------------------------------------------------------------------------
(* Routes *)

(* GET / *)
root ==
    /\ request' = Request("root", NoHeader, 0, <<>>)
    /\ response' = Reply("root", HTTP_200_OK, "",
                         <<[message |-> "Welcome to FastAPI Prototype", version |-> "1.0.0"]>>)
    /\ UNCHANGED <<users_db, items_db, now, inflight>>

(* GET /health *)
health_check ==
    /\ request' = Request("health_check", NoHeader, 0, <<>>)
    /\ response' = Reply("health_check", HTTP_200_OK, "",
                         <<[status |-> "healthy", timestamp |-> now]>>)
    /\ UNCHANGED <<users_db, items_db, now, inflight>>

(* the duplicate test left out *)
already_registered_unchecked(user) == FALSE

(* "if user.username in users_db" *)
already_registered(user) == DictHas(users_db, user.username)

(* POST /register *)
register(user, salt) ==
    LET hashed_password == get_password_hash(user.password, salt)
        user_data == [username |-> user.username, email |-> user.email,
                      full_name |-> user.full_name, password |-> hashed_password,
                      id |-> Len(users_db) + 1, created_at |-> now]
    IN  /\ request' = Request("register", NoHeader, 0, <<user>>)
        /\ IF ~UserCreateValid(user)
           THEN /\ response' = RequestValidationError("register")
                /\ UNCHANGED users_db
           ELSE IF already_registered(user)
           THEN /\ response' = HTTPException("register", HTTP_400_BAD_REQUEST,
                                             "Username already registered")
                /\ UNCHANGED users_db
           ELSE /\ users_db' = DictSet(users_db, user.username, user_data)
                /\ response' = Reply("register", HTTP_200_OK, "", <<UserView(user_data)>>)
        /\ UNCHANGED <<items_db, now, inflight>>

(* only the lookup, the password never verified *)
bad_credentials_lookup_only(user_credentials) ==
    ~DictHas(users_db, user_credentials.username)

(* "if not user or not verify_password(user_credentials.password, user["password"])" *)
bad_credentials(user_credentials) ==
    \/ ~DictHas(users_db, user_credentials.username)
    \/ ~verify_password(user_credentials.password,
                        DictGet(users_db, user_credentials.username).password)

(* POST /login *)
login(user_credentials) ==
    LET user == DictGet(users_db, user_credentials.username)
        access_token_expires == <<Minutes(ACCESS_TOKEN_EXPIRE_MINUTES)>>
        access_token == create_access_token([sub |-> user.username],
                                            access_token_expires, now)
    IN  /\ request' = Request("login", NoHeader, 0, <<user_credentials>>)
        /\ IF bad_credentials(user_credentials)
           THEN response' = HTTPException("login", HTTP_401_UNAUTHORIZED,
                                          "Incorrect username or password")
           ELSE response' = Reply("login", HTTP_200_OK, "",
                                  <<[access_token |-> access_token,
                                     token_type |-> "bearer"]>>)
        /\ UNCHANGED <<users_db, items_db, now, inflight>>

(* GET /users/me *)
read_users_me(header) ==
    LET auth == get_current_user(header, users_db, now)
    IN  /\ request' = Request("read_users_me", header, 0, <<>>)
        /\ IF ~auth.ok
           THEN response' = HTTPException("read_users_me", auth.status, auth.detail)
           ELSE response' = Reply("read_users_me", HTTP_200_OK, "",
                                  <<UserView(auth.user[1])>>)
        /\ UNCHANGED <<users_db, items_db, now, inflight>>

(* GET /users *)
get_users ==
    /\ request' = Request("get_users", NoHeader, 0, <<>>)
    /\ response' = Reply("get_users", HTTP_200_OK, "",
                         [i \in 1..Len(users_db) |-> UserView(DictValues(users_db)[i])])
    /\ UNCHANGED <<users_db, items_db, now, inflight>>

(* POST /items/ *)
create_item(header, item) ==
    LET auth == get_current_user(header, users_db, now)
        current_user == auth.user[1]
        item_data == [title |-> item.title, description |-> item.description,
                      price |-> item.price, id |-> Len(items_db) + 1,
                      owner_id |-> current_user.id, created_at |-> now]
    IN  /\ request' = Request("create_item", header, 0, <<item>>)
        /\ IF ~auth.ok
           THEN /\ response' = HTTPException("create_item", auth.status, auth.detail)
                /\ UNCHANGED items_db
           ELSE IF ~ItemCreateValid(item)
           THEN /\ response' = RequestValidationError("create_item")
                /\ UNCHANGED items_db
           ELSE /\ items_db' = DictSet(items_db, item_data.id, item_data)
                /\ response' = Reply("create_item", HTTP_200_OK, "", <<ItemView(item_data)>>)
        /\ UNCHANGED <<users_db, now, inflight>>

(* GET /items/ *)
get_items(skip, limit) ==
    LET items == DictValues(items_db)
        page == PySlice(items, skip, skip + limit)
    IN  /\ request' = Request("get_items", NoHeader, 0,
                              <<[skip |-> skip, limit |-> limit]>>)
        /\ response' = Reply("get_items", HTTP_200_OK, "",
                             [i \in 1..Len(page) |-> ItemView(page[i])])
        /\ UNCHANGED <<users_db, items_db, now, inflight>>

(* a read that takes the item out of the store *)
get_item_consuming(item_id) ==
    /\ request' = Request("get_item", NoHeader, item_id, <<>>)
    /\ IF ~DictHas(items_db, item_id)
       THEN /\ response' = HTTPException("get_item", HTTP_404_NOT_FOUND, "Item not found")
            /\ UNCHANGED items_db
       ELSE /\ response' = Reply("get_item", HTTP_200_OK, "",
                                 <<ItemView(DictGet(items_db, item_id))>>)
            /\ items_db' = SelectSeq(items_db, LAMBDA e : e.key # item_id)
    /\ UNCHANGED <<users_db, now, inflight>>

(* GET /items/{item_id} *)
get_item(item_id) ==
    /\ request' = Request("get_item", NoHeader, item_id, <<>>)
    /\ IF ~DictHas(items_db, item_id)
       THEN response' = HTTPException("get_item", HTTP_404_NOT_FOUND, "Item not found")
       ELSE response' = Reply("get_item", HTTP_200_OK, "",
                              <<ItemView(DictGet(items_db, item_id))>>)
    /\ UNCHANGED <<users_db, items_db, now, inflight>>

(* the ownership test left out *)
not_owner_unchecked(item_id, current_user) == FALSE

(* "if items_db[item_id]["owner_id"] != current_user["id"]", of update_item *)
(* and of delete_item                                                      *)
not_owner(item_id, current_user) ==
    DictGet(items_db, item_id).owner_id # current_user.id

(* PUT /items/{item_id} *)
update_item(header, item_id, item) ==
    LET auth == get_current_user(header, users_db, now)
        current_user == auth.user[1]
        item_data == [title |-> item.title, description |-> item.description,
                      price |-> item.price, id |-> item_id,
                      owner_id |-> current_user.id,
                      created_at |-> DictGet(items_db, item_id).created_at]
    IN  /\ request' = Request("update_item", header, item_id, <<item>>)
        /\ IF ~auth.ok
           THEN /\ response' = HTTPException("update_item", auth.status, auth.detail)
                /\ UNCHANGED items_db
           ELSE IF ~ItemCreateValid(item)
           THEN /\ response' = RequestValidationError("update_item")
                /\ UNCHANGED items_db
           ELSE IF ~DictHas(items_db, item_id)
           THEN /\ response' = HTTPException("update_item", HTTP_404_NOT_FOUND,
                                             "Item not found")
                /\ UNCHANGED items_db
           ELSE IF not_owner(item_id, current_user)
           THEN /\ response' = HTTPException("update_item", HTTP_403_FORBIDDEN,
                                             "Not enough permissions")
                /\ UNCHANGED items_db
           ELSE /\ items_db' = DictSet(items_db, item_id, item_data)
                /\ response' = Reply("update_item", HTTP_200_OK, "", <<ItemView(item_data)>>)
        /\ UNCHANGED <<users_db, now, inflight>>

(* DELETE /items/{item_id} *)
delete_item(header, item_id) ==
    LET auth == get_current_user(header, users_db, now)
        current_user == auth.user[1]
    IN  /\ request' = Request("delete_item", header, item_id, <<>>)
        /\ IF ~auth.ok
           THEN /\ response' = HTTPException("delete_item", auth.status, auth.detail)
                /\ UNCHANGED items_db
           ELSE IF ~DictHas(items_db, item_id)
           THEN /\ response' = HTTPException("delete_item", HTTP_404_NOT_FOUND,
                                             "Item not found")
                /\ UNCHANGED items_db
           ELSE IF not_owner(item_id, current_user)
           THEN /\ response' = HTTPException("delete_item", HTTP_403_FORBIDDEN,
                                             "Not enough permissions")
                /\ UNCHANGED items_db
           ELSE /\ items_db' = DictDel(items_db, item_id)
                /\ response' = Reply("delete_item", HTTP_200_OK, "",
                                     <<[message |-> "Item deleted successfully"]>>)
        /\ UNCHANGED <<users_db, now, inflight>>

-----------------------------------------------------------------------------

Next ==
    \/ \E t \in ClockPoints : Tick(t)
    \/ root
    \/ health_check
    \/ \E user \in UserCreates, salt \in Salts : register(user, salt)
    \/ \E user_credentials \in UserLogins : login(user_credentials)
    \/ \E header \in Headers(ClockPoints) : read_users_me(header)
    \/ get_users
    \/ \E r \in CreateItemRequests(ClockPoints) :
          Len(items_db) < MaxItems /\ create_item(r[1], r[2])
    \/ \E page \in Pages : get_items(page.skip, page.limit)
    \/ \E item_id \in ItemIds : get_item(item_id)
    \/ \E r \in UpdateItemRequests(ClockPoints) : update_item(r[1], r[2], r[3])
    \/ \E r \in DeleteItemRequests(ClockPoints) : delete_item(r[1], r[2])

Spec == Init /\ [][Next]_vars

(* registration, login and the guard under the fine clock *)
NextClock ==
    \/ \E t \in FineClockPoints : Tick(t)
    \/ \E user \in UserCreates, salt \in Salts : register(user, salt)
    \/ \E user_credentials \in UserLogins : login(user_credentials)
    \/ \E header \in Headers(FineClockPoints) : read_users_me(header)

SpecClock == Init /\ [][NextClock]_vars

(* one seller creating, deleting and listing items, the store holding up   *)
(* to MaxListed of them                                                    *)
Sellers == {UserCreate("alice", GoodEmail, "password1")}

Listings == {ItemCreate("Widget", 5)}

NextItems ==
    \/ \E t \in ClockPoints : Tick(t)
    \/ \E user \in Sellers, salt \in Salts : register(user, salt)
    \/ \E header \in HolderHeaders(ClockPoints), item \in Listings :
          Len(items_db) < MaxListed /\ create_item(header, item)
    \/ \E header \in HolderHeaders(ClockPoints), item_id \in 1..MaxListed :
          delete_item(header, item_id)
    \/ \E page \in Pages : get_items(page.skip, page.limit)

SpecItems == Init /\ [][NextItems]_vars

-----------------------------------------------------------------------------
(* Overlapping requests.  uvicorn runs the application in one process on   *)
(* one event loop.  A request is first accepted: its body is read and its  *)
(* dependencies are resolved (get_current_user, a plain def, in a worker   *)
(* thread), and both are awaited, so other requests run meanwhile.  Then   *)
(* its handler, an "async def" without any await in it, runs from its      *)
(* first line to its return with no other handler in between.  A request   *)
(* in flight is [op, body, current_user, result], result being <<>> until  *)
(* the handler has run.  The handlers of the accepted requests run in any  *)
(* order.                                                                  *)

InFlight(op, body, current_user, result) ==
    [op |-> op, body |-> body, current_user |-> current_user, result |-> result]

(* POST /register received: the body parsed and validated *)
accept_register(user) ==
    /\ Len(inflight) < MaxInFlight
    /\ inflight' = Append(inflight,
            InFlight("register", user, <<>>,
                     IF UserCreateValid(user) THEN <<>>
                     ELSE <<RequestValidationError("register")>>))
    /\ UNCHANGED <<users_db, items_db, now, request, response>>

(* POST /items/ received: Depends(get_current_user), then the body *)
accept_create_item(header, item) ==
    LET auth == get_current_user(header, users_db, now)
    IN  /\ Len(inflight) < MaxInFlight
        /\ inflight' = Append(inflight,
                IF ~auth.ok
                THEN InFlight("create_item", item, <<>>,
                              <<HTTPException("create_item", auth.status, auth.detail)>>)
                ELSE IF ~ItemCreateValid(item)
                THEN InFlight("create_item", item, auth.user,
                              <<RequestValidationError("create_item")>>)
                ELSE InFlight("create_item", item, auth.user, <<>>))
        /\ UNCHANGED <<users_db, items_db, now, request, response>>

(* the body of register runs for the k-th request in flight *)
run_register(k, salt) ==
    LET user == inflight[k].body
        hashed_password == get_password_hash(user.password, salt)
        user_data == [username |-> user.username, email |-> user.email,
                      full_name |-> user.full_name, password |-> hashed_password,
                      id |-> Len(users_db) + 1, created_at |-> now]
        answer == IF already_registered(user)
                  THEN HTTPException("register", HTTP_400_BAD_REQUEST,
                                     "Username already registered")
                  ELSE Reply("register", HTTP_200_OK, "", <<UserView(user_data)>>)
    IN  /\ inflight[k].op = "register"
        /\ inflight[k].result = <<>>
        /\ users_db' = IF already_registered(user) THEN users_db
                       ELSE DictSet(users_db, user.username, user_data)
        /\ inflight' = [inflight EXCEPT ![k].result = <<answer>>]
        /\ request' = Request("register", NoHeader, 0, <<user>>)
        /\ response' = answer
        /\ UNCHANGED <<items_db, now>>

(* the body of create_item runs for the k-th request in flight *)
run_create_item(k) ==
    LET item == inflight[k].body
        current_user == inflight[k].current_user[1]
        item_data == [title |-> item.title, description |-> item.description,
                      price |-> item.price, id |-> Len(items_db) + 1,
                      owner_id |-> current_user.id, created_at |-> now]
        answer == Reply("create_item", HTTP_200_OK, "", <<ItemView(item_data)>>)
    IN  /\ inflight[k].op = "create_item"
        /\ inflight[k].result = <<>>
        /\ items_db' = DictSet(items_db, item_data.id, item_data)
        /\ inflight' = [inflight EXCEPT ![k].result = <<answer>>]
        /\ request' = Request("create_item", NoHeader, 0, <<item>>)
        /\ response' = answer
        /\ UNCHANGED <<users_db, now>>

(* every request in flight has its answer: the clients take them *)
collect ==
    /\ inflight # <<>>
    /\ \A k \in 1..Len(inflight) : inflight[k].result # <<>>
    /\ inflight' = <<>>
    /\ UNCHANGED <<users_db, items_db, now, request, response>>

(* two registrations of one username *)
Rivals ==
    { UserCreate("alice", GoodEmail, "password1"),
      UserCreate("alice", GoodEmail, "password2"),
      UserCreate("bob", GoodEmail, "short") }

RivalItems == {ItemCreate("Widget", 5), ItemCreate("Gadget", 7), ItemCreate("", 5)}

(* Registrations and creations overlap; a DELETE comes between two rounds *)
(* of them.                                                               *)
NextConcurrent ==
    \/ \E user \in Rivals : accept_register(user)
    \/ \E header \in HolderHeaders(ClockPoints) \cup {NoHeader}, item \in RivalItems :
          Len(items_db) < MaxItems /\ accept_create_item(header, item)
    \/ \E k \in 1..Len(inflight), salt \in Salts : run_register(k, salt)
    \/ \E k \in 1..Len(inflight) : run_create_item(k)
    \/ collect
    \/ \E header \in HolderHeaders(ClockPoints), item_id \in ItemIds :
          inflight = <<>> /\ delete_item(header, item_id)

SpecConcurrent == Init /\ [][NextConcurrent]_vars

-----------------------------------------------------------------------------
(* The token service by itself: create_access_token called with the data   *)
(* and the expires_delta a caller may pass, at the times of the fine clock *)

Subjects == {"alice", "bob", "carol"}

(* None, timedelta(0), half a second, a second, 15 and 30 minutes *)
ExpiresDeltas ==
    { <<>>, <<0>>, <<1>>, <<TicksPerSecond>>,
      <<Minutes(DEFAULT_EXPIRE_MINUTES)>>, <<Minutes(ACCESS_TOKEN_EXPIRE_MINUTES)>> }

call_create_access_token(data, expires_delta) ==
    /\ request' = Request("create_access_token", NoHeader, 0,
                          <<[data |-> data, expires_delta |-> expires_delta]>>)
    /\ response' = Reply("create_access_token", HTTP_200_OK, "",
                         <<create_access_token(data, expires_delta, now)>>)
    /\ UNCHANGED <<users_db, items_db, now, inflight>>

NextToken ==
    \/ \E t \in FineClockPoints : Tick(t)
    \/ \E sub \in Subjects, expires_delta \in ExpiresDeltas :
          call_create_access_token([sub |-> sub], expires_delta)

SpecToken == Init /\ [][NextToken]_vars

-----------------------------------------------------------------------------
(* Properties.  In a step, request' and response' are the request handled  *)
(* and its response, and the unprimed stores and clock are those the       *)
(* request met.                                                            *)

(* header carries a token for `user`: a JWT signed with SECRET_KEY, its    *)
(* subject the user's name, its exp claim after time t                     *)
ValidTokenOf(header, user, t) ==
    /\ header.scheme = "Bearer"
    /\ header.credentials # <<>>
    /\ LET token == header.credentials[1]
       IN  /\ token.wellformed
           /\ token.key = SECRET_KEY
           /\ token.sub = user.username
           /\ token.exp * TicksPerSecond > t

ProtectedOps == {"read_users_me", "create_item", "update_item", "delete_item"}

(* the step handles a request of one of `ops`: every step but a Tick does, *)
(* and a Tick moves the clock                                              *)
Handles(ops) == request'.op \in ops /\ now' = now

(* C1: a PUT or a DELETE for a stored item, made with a valid token of a   *)
(* stored user whose id is not the item's owner_id, leaves items_db        *)
(* exactly as it was, and is answered 403 (a PUT: when its body is a valid *)
(* item, which is checked before the handler runs).                        *)
C1_ForeignWriteForbidden ==
    [][Handles({"update_item", "delete_item"}) =>
       \A j \in 1..Len(users_db), i \in 1..Len(items_db) :
          ( /\ request'.item_id = items_db[i].key
            /\ ValidTokenOf(request'.header, users_db[j].val, now)
            /\ items_db[i].val.owner_id # users_db[j].val.id )
          => /\ items_db' = items_db
             /\ (request'.op = "update_item" => ItemCreateValid(request'.body[1]))
                => response'.status = HTTP_403_FORBIDDEN]_vars

(* a DELETE by a user who is not the owner was refused, and the item is there *)
C1_Witness ==
    /\ request.op = "delete_item"
    /\ response.status = HTTP_403_FORBIDDEN
    /\ response.detail = "Not enough permissions"
    /\ DictHas(items_db, request.item_id)

(* C2: every successful create_item stores its item under an id that no    *)
(* stored item has, and so makes items_db one longer.                      *)
C2_CreateAssignsFreshId ==
    [][(Handles({"create_item"}) /\ response'.status = HTTP_200_OK)
       => /\ ~DictHas(items_db, response'.body[1].id)
          /\ Len(items_db') = Len(items_db) + 1]_vars

(* C3: the record stored under an id keeps its owner_id for as long as the *)
(* id stays in items_db, and its title, description and price change only  *)
(* in a successful update_item made with a valid token of that owner.      *)
C3_OwnerNeverChanges ==
    [][\A item_id \in DictKeys(items_db) \cap DictKeys(items_db') :
          LET old == DictGet(items_db, item_id)
              new == DictGet(items_db', item_id)
          IN  /\ new.owner_id = old.owner_id
              /\ new # old =>
                    /\ request'.op = "update_item"
                    /\ request'.item_id = item_id
                    /\ response'.status = HTTP_200_OK
                    /\ \E j \in 1..Len(users_db) :
                          /\ users_db[j].val.id = old.owner_id
                          /\ ValidTokenOf(request'.header, users_db[j].val, now)]_vars

(* no two stored users have the same name, and each is stored under its name *)
UsernamesUnique ==
    \A i, j \in 1..Len(users_db) :
       /\ users_db[i].key = users_db[i].val.username
       /\ users_db[i].val.username = users_db[j].val.username => i = j

(* C4: a register request naming a username some stored user has leaves    *)
(* users_db exactly as it was, and is answered 400 "Username already       *)
(* registered" when its body is valid; usernames stay unique.              *)
C4_DuplicateUsernameRejected ==
    [][/\ ( /\ Handles({"register"})
            /\ \E i \in 1..Len(users_db) :
                  users_db[i].val.username = request'.body[1].username )
          => /\ users_db' = users_db
             /\ UserCreateValid(request'.body[1])
                => /\ response'.status = HTTP_400_BAD_REQUEST
                   /\ response'.detail = "Username already registered"
       /\ UsernamesUnique']_vars

(* a second registration of a stored username was refused *)
C4_Witness ==
    /\ request.op = "register"
    /\ response.status = HTTP_400_BAD_REQUEST
    /\ DictHas(users_db, request.body[1].username)

(* C5: login answers 200 exactly when a stored user has the given username *)
(* and the given password verifies against that user's hash; the token it  *)
(* returns is a bearer token signed with SECRET_KEY whose subject is the    *)
(* username and whose exp claim is the time of the login plus 30 minutes,   *)
(* in whole seconds; every other login is answered by the same 401.         *)
C5_LoginIffCredentialsMatch ==
    [][Handles({"login"}) =>
       LET creds == request'.body[1]
           matches == \E i \in 1..Len(users_db) :
                         /\ users_db[i].val.username = creds.username
                         /\ verify_password(creds.password, users_db[i].val.password)
       IN  IF matches
           THEN /\ response'.status = HTTP_200_OK
                /\ response'.body[1].token_type = "bearer"
                /\ LET token == response'.body[1].access_token
                   IN  /\ token.wellformed
                       /\ token.key = SECRET_KEY
                       /\ token.sub = creds.username
                       /\ token.exp = (now + Minutes(ACCESS_TOKEN_EXPIRE_MINUTES))
                                         \div TicksPerSecond
           ELSE response' = Reply("login", HTTP_401_UNAUTHORIZED,
                                  "Incorrect username or password", <<>>)]_vars

(* a login with the user's password succeeded *)
C5_Witness ==
    /\ request.op = "login"
    /\ response.status = HTTP_200_OK
    /\ response.body[1].access_token.sub = request.body[1].username

(* the token login returns for `user` at time t *)
IssuedAt(user, t) ==
    create_access_token([sub |-> user.username],
                        <<Minutes(ACCESS_TOKEN_EXPIRE_MINUTES)>>, t)

(* the exp claim of a token issued at t, in ticks: t + 30 minutes cut to a *)
(* whole second                                                            *)
Expiry(t) ==
    ((t + Minutes(ACCESS_TOKEN_EXPIRE_MINUTES)) \div TicksPerSecond) * TicksPerSecond

(* C6, as claimed: a token issued at t with the 30-minute TTL is accepted  *)
(* at every time before t + 30 minutes and refused with 401 at every time  *)
(* from t + 30 minutes on.                                                 *)
C6_ValidUntilIssuePlusTtl ==
    [][Handles({"read_users_me"}) =>
       \A j \in 1..Len(users_db), t \in FineClockPoints :
          ( /\ users_db[j].val.created_at <= t
            /\ t <= now
            /\ request'.header = Bearer(IssuedAt(users_db[j].val, t)) )
          => IF now < t + Minutes(ACCESS_TOKEN_EXPIRE_MINUTES)
             THEN response'.status = HTTP_200_OK
             ELSE response'.status = HTTP_401_UNAUTHORIZED]_vars

(* C6, amended: the token is accepted at every time before its exp claim,  *)
(* which is t + 30 minutes cut to a whole second, and refused with 401     *)
(* "Could not validate credentials" at every time from the exp claim on.   *)
C6_ValidUntilWholeSecondExpiry ==
    [][Handles({"read_users_me"}) =>
       \A j \in 1..Len(users_db), t \in FineClockPoints :
          ( /\ users_db[j].val.created_at <= t
            /\ t <= now
            /\ request'.header = Bearer(IssuedAt(users_db[j].val, t)) )
          => IF now < Expiry(t)
             THEN response'.status = HTTP_200_OK
             ELSE /\ response'.status = HTTP_401_UNAUTHORIZED
                  /\ response'.detail = "Could not validate credentials"]_vars

(* a token issued within a second was refused after its exp claim and      *)
(* before 30 minutes had passed since it was issued                        *)
C6_Witness ==
    /\ request.op = "read_users_me"
    /\ response.status = HTTP_401_UNAUTHORIZED
    /\ \E j \in 1..Len(users_db), t \in FineClockPoints :
          /\ users_db[j].val.created_at <= t
          /\ request.header = Bearer(IssuedAt(users_db[j].val, t))
          /\ Expiry(t) <= now
          /\ now < t + Minutes(ACCESS_TOKEN_EXPIRE_MINUTES)

(* C7: GET /users/me with a token login returned for a stored user, before *)
(* the token's exp claim, is answered 200 with that user's own view: its   *)
(* username, id, email and created_at.                                     *)
C7_LoginTokenResolvesToItsUser ==
    [][Handles({"read_users_me"}) =>
       \A j \in 1..Len(users_db), t \in ClockPoints :
          LET user == users_db[j].val
          IN  ( /\ user.created_at <= t
                /\ t <= now
                /\ request'.header = Bearer(IssuedAt(user, t))
                /\ now < IssuedAt(user, t).exp * TicksPerSecond )
              => /\ response'.status = HTTP_200_OK
                 /\ response'.body[1].username = user.username
                 /\ response'.body[1].id = user.id
                 /\ response'.body[1].email = user.email
                 /\ response'.body[1].created_at = user.created_at]_vars

(* with two users stored, the second one's token was resolved to the second *)
C7_Witness ==
    /\ request.op = "read_users_me"
    /\ response.status = HTTP_200_OK
    /\ Len(users_db) = 2
    /\ request.header.credentials[1].sub = users_db[2].val.username
    /\ response.body[1].id = users_db[2].val.id

(* header carries a bearer token the guard must refuse at time t: no JWT,  *)
(* a signature of another key, an exp claim not after t, no subject, or a  *)
(* subject no stored user has                                              *)
RefusedToken(header, t) ==
    /\ header.scheme = "Bearer"
    /\ header.credentials # <<>>
    /\ LET token == header.credentials[1]
       IN  \/ ~token.wellformed
           \/ token.key # SECRET_KEY
           \/ token.exp * TicksPerSecond <= t
           \/ token.sub = None
           \/ \A j \in 1..Len(users_db) : users_db[j].val.username # token.sub

(* C8: a request to a bearer-protected route with such a token is answered *)
(* 401 and leaves users_db and items_db as they were.                      *)
C8_BadTokenUnauthorized ==
    [][(Handles(ProtectedOps) /\ RefusedToken(request'.header, now))
       => /\ response'.status = HTTP_401_UNAUTHORIZED
          /\ users_db' = users_db
          /\ items_db' = items_db]_vars

(* a create_item with an expired token of a stored user was refused *)
C8_Witness ==
    /\ request.op = "create_item"
    /\ response.status = HTTP_401_UNAUTHORIZED
    /\ \E j \in 1..Len(users_db) :
          LET token == request.header.credentials[1]
          IN  /\ token.wellformed
              /\ token.key = SECRET_KEY
              /\ token.sub = users_db[j].val.username
              /\ token.exp * TicksPerSecond <= now

(* header carries no bearer credential: no Authorization header, another   *)
(* scheme, or the scheme without credentials                               *)
NoBearerCredential(header) ==
    SchemeLower(header.scheme) # "bearer" \/ header.credentials = <<>>

C10_CreateAddsExactlyOne ==
    [][Handles({"create_item"}) =>
       \A j \in 1..Len(users_db) :
          ( /\ ValidTokenOf(request'.header, users_db[j].val, now)
            /\ ItemCreateValid(request'.body[1]) )
          => /\ response'.status = HTTP_200_OK
             /\ users_db' = users_db
             /\ Len(items_db') = Len(items_db) + 1
             /\ \A i \in 1..Len(items_db) : items_db'[i] = items_db[i]
             /\ LET new == items_db'[Len(items_db')].val
                IN  /\ new.owner_id = users_db[j].val.id
                    /\ new.title = request'.body[1].title
                    /\ new.description = request'.body[1].description
                    /\ new.price = request'.body[1].price
                    /\ response'.body = <<ItemView(new)>>]_vars

(* C11: a DELETE of a stored item made with a valid token of its owner is  *)
(* answered 200 with the confirmation message, removes that record and     *)
(* leaves every other item and users_db as they were; and the GET of that  *)
(* id that follows the DELETE is answered 404.                             *)
C11_OwnerDeleteThenNotFound ==
    [][/\ Handles({"delete_item"}) =>
          \A j \in 1..Len(users_db), i \in 1..Len(items_db) :
             ( /\ request'.item_id = items_db[i].key
               /\ ValidTokenOf(request'.header, users_db[j].val, now)
               /\ items_db[i].val.owner_id = users_db[j].val.id )
             => /\ response' = Reply("delete_item", HTTP_200_OK, "",
                                     <<[message |-> "Item deleted successfully"]>>)
                /\ items_db' = SubSeq(items_db, 1, i - 1)
                                   \o SubSeq(items_db, i + 1, Len(items_db))
                /\ users_db' = users_db
       /\ ( /\ Handles({"get_item"})
            /\ request.op = "delete_item"
            /\ response.status = HTTP_200_OK
            /\ request'.item_id = request.item_id )
          => response'.status = HTTP_404_NOT_FOUND]_vars

(* C12: a PUT with a valid body for a stored item, made with a valid token *)
(* of its owner, is answered 200; the stored record gets the body's title, *)
(* description and price and keeps its id, owner_id and created_at; it is  *)
(* what is returned; it stays at its position in items_db, and every other *)
(* item and users_db are as they were.                                     *)
C12_OwnerUpdateReplacesFields ==
    [][Handles({"update_item"}) =>
       \A j \in 1..Len(users_db), i \in 1..Len(items_db) :
          ( /\ request'.item_id = items_db[i].key
            /\ ValidTokenOf(request'.header, users_db[j].val, now)
            /\ items_db[i].val.owner_id = users_db[j].val.id
            /\ ItemCreateValid(request'.body[1]) )
          => /\ response'.status = HTTP_200_OK
             /\ Len(items_db') = Len(items_db)
             /\ items_db'[i].key = items_db[i].key
             /\ LET old == items_db[i].val
                    new == items_db'[i].val
                    body == request'.body[1]
                IN  /\ new.title = body.title
                    /\ new.description = body.description
                    /\ new.price = body.price
                    /\ new.id = old.id
                    /\ new.owner_id = old.owner_id
                    /\ new.created_at = old.created_at
                    /\ response'.body = <<ItemView(new)>>
             /\ \A k \in 1..Len(items_db) : k # i => items_db'[k] = items_db[k]
             /\ users_db' = users_db]_vars

(* the first of two stored items was updated by its owner, later than it   *)
(* was created                                                             *)
C12_Witness ==
    /\ request.op = "update_item"
    /\ response.status = HTTP_200_OK
    /\ Len(items_db) = 2
    /\ items_db[1].key = request.item_id
    /\ items_db[1].val.title = request.body[1].title
    /\ items_db[1].val.created_at < now

(* C13: GET /items/ with skip >= 0 and limit >= 0 is answered 200 with the *)
(* items at positions skip .. skip+limit-1 (counted from 0) of the store's *)
(* contents, fewer or none past the end, and those contents are in the     *)
(* order the items were created: no item stands before one created         *)
(* earlier than it.                                                        *)
C13_ListIsCreationOrderedSlice ==
    [][( /\ Handles({"get_items"})
         /\ request'.body[1].skip >= 0
         /\ request'.body[1].limit >= 0 ) =>
       LET skip == request'.body[1].skip
           limit == request'.body[1].limit
           n == Len(items_db)
           stop == IF skip + limit < n THEN skip + limit ELSE n
       IN  /\ response'.status = HTTP_200_OK
           /\ Len(response'.body) = (IF stop > skip THEN stop - skip ELSE 0)
           /\ \A k \in 1..Len(response'.body) :
                 response'.body[k] = ItemView(items_db[skip + k].val)
           /\ \A a, b \in 1..n :
                 a < b => items_db[a].val.created_at <= items_db[b].val.created_at]_vars

(* C14: the k-th user stored has id k, so ids count up from 1 and no two   *)
(* users share one; and a step never removes or changes a stored user: id, *)
(* username, email, password hash and created_at stay as they were stored. *)
C14_UserIdsSequentialAndFrozen ==
    [][/\ \A k \in 1..Len(users_db') : users_db'[k].val.id = k
       /\ Len(users_db') >= Len(users_db)
       /\ \A k \in 1..Len(users_db) : users_db'[k] = users_db[k]
       /\ (Handles({"register"}) /\ response'.status = HTTP_200_OK)
             => /\ Len(users_db') = Len(users_db) + 1
                /\ response'.body[1].id = Len(users_db')]_vars

(* the second registration got id 2, and requests and time have gone by    *)
(* since                                                                   *)
C14_Witness ==
    /\ Len(users_db) = 2
    /\ users_db[2].val.id = 2
    /\ users_db[1].val.id = 1
    /\ now > users_db[2].val.created_at
    /\ request.op = "register"
    /\ response.status = HTTP_400_BAD_REQUEST

(* the field names of the outward User view *)
UserViewFields == {"id", "username", "email", "full_name", "is_active", "created_at"}

(* C15: every user object in a 200 response of register, read_users_me or  *)
(* get_users has exactly the fields id, username, email, full_name,        *)
(* is_active and created_at, so neither the password nor its hash, while   *)
(* every stored record does hold the hash.                                 *)
C15_UserViewHidesPassword ==
    [][(Handles({"register", "read_users_me", "get_users"})
          /\ response'.status = HTTP_200_OK)
       => /\ \A k \in 1..Len(response'.body) :
                DOMAIN response'.body[k] = UserViewFields
          /\ \A k \in 1..Len(users_db') :
                "password" \in DOMAIN users_db'[k].val]_vars

(* the list of users was returned with two users stored *)
C15_Witness ==
    /\ request.op = "get_users"
    /\ response.status = HTTP_200_OK
    /\ Len(response.body) = 2
    /\ Len(users_db) = 2
    /\ "password" \in DOMAIN users_db[2].val

(* a register body breaking a constraint: a username of fewer than 3 or of *)
(* more than 50 characters, an email that is no address, a password of     *)
(* fewer than 8 characters                                                 *)
BadUserBody(body) ==
    \/ Len(body.username) < 3
    \/ Len(body.username) > 50
    \/ ~EmailRegexMatches(body.email)
    \/ Len(body.password) < 8

(* an item body breaking a constraint: an empty title, one of more than    *)
(* 100 characters, a price not above 0                                     *)
BadItemBody(body) ==
    \/ Len(body.title) < 1
    \/ Len(body.title) > 100
    \/ body.price <= 0

(* C16: a register request with such a body is answered 422 and adds no    *)
(* user; a create_item or update_item request with such a body changes no  *)
(* item, and is answered 422 when it comes with a valid token of a stored  *)
(* user (the guard answers first when it does not).                        *)
C16_InvalidBodyRejected ==
    [][/\ (Handles({"register"}) /\ BadUserBody(request'.body[1]))
          => /\ response'.status = HTTP_422_UNPROCESSABLE_ENTITY
             /\ users_db' = users_db
             /\ items_db' = items_db
       /\ (Handles({"create_item", "update_item"}) /\ BadItemBody(request'.body[1]))
          => /\ items_db' = items_db
             /\ users_db' = users_db
             /\ (\E j \in 1..Len(users_db) :
                    ValidTokenOf(request'.header, users_db[j].val, now))
                => response'.status = HTTP_422_UNPROCESSABLE_ENTITY]_vars

(* the owner's update of a stored item with a price of 0 was refused *)
C16_Witness ==
    /\ request.op = "update_item"
    /\ response.status = HTTP_422_UNPROCESSABLE_ENTITY
    /\ request.body[1].price = 0
    /\ DictHas(items_db, request.item_id)
    /\ \E j \in 1..Len(users_db) :
          /\ ValidTokenOf(request.header, users_db[j].val, now)
          /\ DictGet(items_db, request.item_id).owner_id = users_db[j].val.id

(* the k-th request in flight was answered 200 *)
Succeeded(k) ==
    /\ inflight[k].result # <<>>
    /\ inflight[k].result[1].status = HTTP_200_OK

(* C17: of the register and create_item requests in flight together, no    *)
(* two that succeeded on the same store were given the same id, each that  *)
(* succeeded has its record in the store as it was returned, and no two    *)
(* that succeeded registered the same username.                            *)
C17_ConcurrentIdsRaceFree ==
    /\ \A a, b \in 1..Len(inflight) :
          ( /\ a # b
            /\ inflight[a].op = inflight[b].op
            /\ Succeeded(a)
            /\ Succeeded(b) )
          => /\ inflight[a].result[1].body[1].id # inflight[b].result[1].body[1].id
             /\ inflight[a].op = "register"
                   => inflight[a].body.username # inflight[b].body.username
    /\ \A a \in 1..Len(inflight) :
          Succeeded(a) =>
             LET returned == inflight[a].result[1].body[1]
             IN  IF inflight[a].op = "register"
                 THEN /\ DictHas(users_db, returned.username)
                      /\ UserView(DictGet(users_db, returned.username)) = returned
                 ELSE /\ DictHas(items_db, returned.id)
                      /\ ItemView(DictGet(items_db, returned.id)) = returned

(* C18: the token create_access_token returns has the subject passed in,  *)
(* and as exp claim the time of the call plus the expires_delta passed,    *)
(* whatever it is, a zero timedelta too, or plus 15 minutes when none is   *)
(* passed (the exp claim being in whole seconds).                          *)
C18_ExpiryIsNowPlusTtl ==
    [][Handles({"create_access_token"}) =>
       LET data == request'.body[1].data
           expires_delta == request'.body[1].expires_delta
           token == response'.body[1]
           ttl == IF expires_delta = <<>> THEN Minutes(15) ELSE expires_delta[1]
       IN  /\ token.sub = data.sub
           /\ token.exp = (now + ttl) \div TicksPerSecond]_vars

(* the guard refused the request: its 401s, and its 403s for a request     *)
(* without bearer credentials                                              *)
RefusedByGuard(resp) ==
    \/ resp.status = HTTP_401_UNAUTHORIZED
    \/ /\ resp.status = HTTP_403_FORBIDDEN
       /\ resp.detail \in {"Not authenticated", "Invalid authentication credentials"}

(* C19: get_item, get_items, get_users, read_users_me and login, whether   *)
(* they succeed or fail, and every request to a protected route that the   *)
(* guard refuses, leave users_db and items_db as they were; so the stores  *)
(* a later request meets are the same however often these are repeated.    *)
C19_ReadsChangeNothing ==
    [][( \/ Handles({"get_item", "get_items", "get_users", "read_users_me", "login"})
         \/ Handles(ProtectedOps) /\ RefusedByGuard(response') )
       => /\ users_db' = users_db
          /\ items_db' = items_db]_vars

(* an item was read with two users and two items stored *)
C19_Witness ==
    /\ request.op = "get_item"
    /\ response.status = HTTP_200_OK
    /\ Len(users_db) = 2
    /\ Len(items_db) = 2
    /\ DictHas(items_db, request.item_id)

(* C20: update_item and delete_item test the token, then the id, then the  *)
(* owner.  With a valid token of a stored user (and, for a PUT, a valid    *)
(* body): an id that is not in items_db is answered 404, whoever asks, and *)
(* 403 is answered only for an id that is stored with an owner_id other    *)
(* than the user's id.  With a token the guard refuses, the answer is 401  *)
(* whether the id is stored or not.                                        *)
C20_AuthThenExistenceThenOwnership ==
    [][Handles({"update_item", "delete_item"}) =>
       /\ \A j \in 1..Len(users_db) :
             ( /\ ValidTokenOf(request'.header, users_db[j].val, now)
               /\ request'.op = "update_item" => ItemCreateValid(request'.body[1]) )
             => /\ ~DictHas(items_db, request'.item_id)
                      => response'.status = HTTP_404_NOT_FOUND
                /\ response'.status = HTTP_403_FORBIDDEN
                      => /\ DictHas(items_db, request'.item_id)
                         /\ DictGet(items_db, request'.item_id).owner_id
                               # users_db[j].val.id
       /\ RefusedToken(request'.header, now)
             => response'.status = HTTP_401_UNAUTHORIZED]_vars

(* C21: in every state, each record of items_db is stored under the key    *)
(* that is its id and has as owner_id the id of exactly one stored user,   *)
(* and each record of users_db is stored under the key that is its         *)
(* username.                                                               *)
C21_StoresKeepIntegrity ==
    /\ \A i \in 1..Len(items_db) :
          /\ items_db[i].key = items_db[i].val.id
          /\ Cardinality({j \in 1..Len(users_db) :
                            users_db[j].val.id = items_db[i].val.owner_id}) = 1
    /\ \A j \in 1..Len(users_db) :
          users_db[j].key = users_db[j].val.username

(* two users each own a stored item, one of them just updated by its owner *)
C21_Witness ==
    /\ Len(users_db) = 2
    /\ Len(items_db) = 2
    /\ items_db[1].val.owner_id # items_db[2].val.owner_id
    /\ request.op = "update_item"
    /\ response.status = HTTP_200_OK

=============================================================================
